---- MODULE Spec2Model ----
(***************************************************************************)
(* A model of the waller HD wallet library: the Key codec and derivation   *)
(* (src/src/key.rs), the hashing helpers (src/src/utils.rs) and the Wallet *)
(* with its key arena and persistence (src/src/wallet.rs).                 *)
(*                                                                         *)
(* Byte strings are sequences over 0..255.  A usize is a big-endian        *)
(* sequence of four 16-bit limbs (a 64-bit target), because the indices    *)
(* the code compares against (2^31, 2^32) do not fit a TLC integer.        *)
(***************************************************************************)
EXTENDS Integers, Sequences, FiniteSets, TLC

\* ------------------------------------------------------------------ results

Ok(v) == [tag |-> "Ok", val |-> v]
Err(e) == [tag |-> "Err", err |-> e]
Panic(why) == [tag |-> "Panic", why |-> why]
None == [tag |-> "None"]
Some(v) == [tag |-> "Some", val |-> v]

IsOk(r) == r.tag = "Ok"
IsErr(r) == r.tag = "Err"
IsPanic(r) == r.tag = "Panic"

\* ------------------------------------------------------------------ bytes

Rep(b, n) == [i \in 1..n |-> b]

Reverse(s) == [i \in 1..Len(s) |-> s[Len(s) + 1 - i]]

Last(s) == s[Len(s)]

Front(s) == SubSeq(s, 1, Len(s) - 1)

\* Vec::split_off(at): the receiver keeps [0, at), the result is [at, len)
SplitKeep(s, at) == SubSeq(s, 1, at)
SplitOff(s, at) == SubSeq(s, at + 1, Len(s))

\* The recursive operators below split their range in halves and test the
\* left half's result before they go on to the right half, so that the
\* evaluation of a 64-byte string nests a handful of levels only.

Min(S) == CHOOSE x \in S : \A y \in S : x <= y

LeadingZeros(s) ==
    LET nonzero == {i \in 1..Len(s) : s[i] # 0}
    IN IF nonzero = {} THEN Len(s) ELSE Min(nonzero) - 1

StripLeadingZeros(s) == SubSeq(s, LeadingZeros(s) + 1, Len(s))

\* Lexicographic comparison of two equally long digit strings, most
\* significant digit first: -1, 0 or 1.
CmpBE(a, b) ==
    LET differ == {i \in 1..Len(a) : a[i] # b[i]}
    IN IF differ = {} THEN 0
       ELSE IF a[Min(differ)] < b[Min(differ)] THEN -1 ELSE 1

\* ------------------------------------------------------------------ base58
\* bs58::encode / bs58::decode: positional conversion of a big-endian digit
\* string between base 256 and base 58; every leading zero byte is one
\* leading zero digit ('1') and back.  A Base58 string is the sequence of
\* its characters' alphabet positions 0..57; any other value stands for a
\* character outside the alphabet.

\* Long division of the digits num[lo..hi] (base inBase) by d, with the
\* remainder r carried in: the quotient's digits and the remainder.
RECURSIVE DivDigits(_, _, _, _, _, _)
DivDigits(num, inBase, d, lo, hi, r) ==
    IF lo > hi THEN [q |-> <<>>, r |-> r]
    ELSE IF lo = hi
    THEN LET cur == r * inBase + num[lo]
         IN [q |-> <<cur \div d>>, r |-> cur % d]
    ELSE LET mid == (lo + hi) \div 2
             left == DivDigits(num, inBase, d, lo, mid, r)
             right == DivDigits(num, inBase, d, mid + 1, hi, left.r)
         IN IF left.r < 0 THEN left
            ELSE [q |-> left.q \o right.q, r |-> right.r]

\* One step of the conversion: divide what is left by the output base and
\* put the remainder in front of the digits found so far.
ConvertStep(st, inBase, outBase) ==
    LET n == StripLeadingZeros(st.num)
    IN IF n = <<>> THEN [num |-> n, acc |-> st.acc]
       ELSE LET dm == DivDigits(n, inBase, outBase, 1, Len(n), 0)
            IN [num |-> dm.q, acc |-> <<dm.r>> \o st.acc]

\* k steps of the conversion
RECURSIVE ConvertSteps(_, _, _, _)
ConvertSteps(st, inBase, outBase, k) ==
    IF k = 0 THEN st
    ELSE IF k = 1 THEN ConvertStep(st, inBase, outBase)
    ELSE LET half == ConvertSteps(st, inBase, outBase, k \div 2)
         IN IF Len(half.num) < 0 THEN half
            ELSE ConvertSteps(half, inBase, outBase, k - (k \div 2))

\* A number of n digits in base 58 or 256 has at most 2n digits in the other.
ConvertBase(num, inBase, outBase) ==
    ConvertSteps([num |-> num, acc |-> <<>>], inBase, outBase, 2 * Len(num)).acc

Base58Encode(bytes) ==
    Rep(0, LeadingZeros(bytes)) \o ConvertBase(bytes, 256, 58)

Base58Decode(str) ==
    IF \E i \in 1..Len(str) : str[i] \notin 0..57
    THEN Err("Decode")
    ELSE Ok(Rep(0, LeadingZeros(str)) \o ConvertBase(str, 58, 256))

\* ------------------------------------------------------------------ hashes
\* The digests are external primitives.  They are modelled by one mixing
\* function that is deterministic, has the digest's length, and changes
\* whenever a single input byte changes (the multiplier is invertible modulo
\* the prime 65521 and a byte difference is smaller than it).

RECURSIVE MixRange(_, _, _, _)
MixRange(bytes, lo, hi, acc) ==
    IF lo > hi THEN acc
    ELSE IF lo = hi THEN (acc * 31 + bytes[lo] + 1) % 65521
    ELSE LET mid == (lo + hi) \div 2
             left == MixRange(bytes, lo, mid, acc)
         IN IF left < 0 THEN left ELSE MixRange(bytes, mid + 1, hi, left)

Mix(bytes, acc) == MixRange(bytes, 1, Len(bytes), acc)

Expand(acc, n) ==
    [i \in 1..n |-> IF i = 1 THEN acc \div 256
                    ELSE IF i = 2 THEN acc % 256
                    ELSE ((acc + i) * (2 * i + 1)) % 256]

sha256_hash(input) == Expand(Mix(input, 7), 32)

\* A digest whose first half is no scalar of the curve exists; BadSeed is
\* the one input of the model that has such a digest.
BadSeed == Rep(66, 64)

sha512_hash(input) ==
    IF input = BadSeed THEN Rep(255, 64) ELSE Expand(Mix(input, 13), 64)

sha256_hash_twice(input) == sha256_hash(sha256_hash(input))

ripemd160_hash(input) == Expand(Mix(input, 11), 20)

hmac_sha512_hash(input, key) == Expand(Mix(input \o key, 29), 64)

\* ------------------------------------------------------------------ secp256k1

\* secp256k1::constants::CURVE_ORDER, a big-endian byte array
CURVE_ORDER ==
    <<255, 255, 255, 255, 255, 255, 255, 255, 255, 255, 255, 255, 255, 255,
      255, 254, 186, 174, 220, 230, 175, 72, 160, 59, 191, 210, 94, 140, 208,
      54, 65, 65>>

\* SecretKey::from_slice accepts exactly the 32-byte big-endian scalars s
\* with 0 < s < CURVE_ORDER
ValidScalar(bytes) ==
    /\ Len(bytes) = Len(CURVE_ORDER)
    /\ bytes # Rep(0, Len(CURVE_ORDER))
    /\ CmpBE(bytes, CURVE_ORDER) = -1

\* PublicKey::from_secret_key and its two serializations.  The point is an
\* external computation: a deterministic 32-byte X (and Y) of the scalar.
PointX(bytes) == Expand(Mix(bytes, 17), 32)
PointY(bytes) == Expand(Mix(bytes, 19), 32)
SerializeCompressed(bytes) == <<2 + (Last(PointY(bytes)) % 2)>> \o PointX(bytes)
SerializeUncompressed(bytes) == <<4>> \o PointX(bytes) \o PointY(bytes)

\* ------------------------------------------------------------------ BigInt
\* num_bigint::BigInt: a sign and a magnitude.  The magnitude is a
\* little-endian byte string with no high zero byte (zero is <<>>).

MagNorm(s) == Reverse(StripLeadingZeros(Reverse(s)))

MagCmp(a, b) ==
    IF Len(a) < Len(b) THEN -1
    ELSE IF Len(a) > Len(b) THEN 1
    ELSE CmpBE(Reverse(a), Reverse(b))

DigitAt(a, i) == IF i <= Len(a) THEN a[i] ELSE 0

\* The digits lo..hi of a + sign * b with the carry (or borrow) c coming in:
\* the digits and the carry (or borrow) going out.
RECURSIVE AddDigits(_, _, _, _, _, _)
AddDigits(a, b, sign, lo, hi, c) ==
    IF lo > hi THEN [d |-> <<>>, c |-> c]
    ELSE IF lo = hi
    THEN LET t == DigitAt(a, lo) + sign * (DigitAt(b, lo) + c)
         IN [d |-> <<(t + 256) % 256>>,
             c |-> IF t < 0 \/ t > 255 THEN 1 ELSE 0]
    ELSE LET mid == (lo + hi) \div 2
             left == AddDigits(a, b, sign, lo, mid, c)
             right == AddDigits(a, b, sign, mid + 1, hi, left.c)
         IN IF left.c < 0 THEN left
            ELSE [d |-> left.d \o right.d, c |-> right.c]

MagAdd(a, b) ==
    LET n == IF Len(a) > Len(b) THEN Len(a) ELSE Len(b)
        sum == AddDigits(a, b, 1, 1, n, 0)
    IN MagNorm(IF sum.c = 0 THEN sum.d ELSE Append(sum.d, sum.c))

\* a - b for a >= b
MagSub(a, b) == MagNorm(AddDigits(a, b, -1, 1, Len(a), 0).d)

RECURSIVE MagRem(_, _)
MagRem(a, m) == IF MagCmp(a, m) = -1 THEN a ELSE MagRem(MagSub(a, m), m)

\* twos_complement_le: invert every byte and add one, in place (the carry
\* runs through the low zero bytes and stops at the first other byte)
twos_complement_le(digits) ==
    LET low == LeadingZeros(digits)
    IN [i \in 1..Len(digits) |->
           IF i <= low THEN 0
           ELSE IF i = low + 1 THEN 256 - digits[i]
           ELSE 255 - digits[i]]

BigInt(neg, mag) == [neg |-> neg /\ mag # <<>>, mag |-> mag]

\* BigInt::from_signed_bytes_le
from_signed_bytes_le(digits) ==
    IF digits = <<>> THEN BigInt(FALSE, <<>>)
    ELSE IF Last(digits) > 127
    THEN BigInt(TRUE, MagNorm(twos_complement_le(digits)))
    ELSE BigInt(FALSE, MagNorm(digits))

\* BigInt + BigInt
BigAdd(a, b) ==
    IF a.neg = b.neg THEN BigInt(a.neg, MagAdd(a.mag, b.mag))
    ELSE IF MagCmp(a.mag, b.mag) = -1 THEN BigInt(b.neg, MagSub(b.mag, a.mag))
    ELSE BigInt(a.neg, MagSub(a.mag, b.mag))

\* BigInt % BigInt: the remainder of truncated division (the dividend's sign)
BigRem(a, m) == BigInt(a.neg, MagRem(a.mag, m.mag))

\* BigInt::to_signed_bytes_le: the shortest two's complement encoding
to_signed_bytes_le(x) ==
    LET bytes == IF x.mag = <<>> THEN <<0>> ELSE x.mag
        last_byte == Last(bytes)
        extended ==
            IF last_byte > 127
               /\ ~(last_byte = 128 /\ Front(bytes) = Rep(0, Len(bytes) - 1) /\ x.neg)
            THEN Append(bytes, 0)
            ELSE bytes
    IN IF x.neg THEN twos_complement_le(extended) ELSE extended

\* ------------------------------------------------------------------ usize
\* A usize is four 16-bit limbs, most significant first.

Usize(l3, l2, l1, l0) == <<l3, l2, l1, l0>>

UsizeGt(a, b) == CmpBE(a, b) = 1
UsizeLt(a, b) == CmpBE(a, b) = -1

RECURSIVE IncLimbsLE(_)
IncLimbsLE(le) ==
    IF le = <<>> THEN <<>>
    ELSE IF Head(le) = 65535 THEN <<0>> \o IncLimbsLE(Tail(le))
    ELSE <<Head(le) + 1>> \o Tail(le)

\* index += 1 that loses the carry out of the low limb
UsizeIncNoCarry(a) == [a EXCEPT ![Len(a)] = (@ + 1) % 65536]

\* index += 1
UsizeInc(a) == Reverse(IncLimbsLE(Reverse(a)))

\* usize::to_le_bytes
RECURSIVE LimbsToBytesLE(_)
LimbsToBytesLE(le) ==
    IF le = <<>> THEN <<>>
    ELSE <<Head(le) % 256, Head(le) \div 256>> \o LimbsToBytesLE(Tail(le))

to_le_bytes(w) == LimbsToBytesLE(Reverse(w))

\* 2147483647 and 4294967295, the literals of derive_child_private_key
MaxNormalIndex == Usize(0, 0, 32767, 65535)
MaxHardenedIndex == Usize(0, 0, 65535, 65535)

\* ------------------------------------------------------------------ mnemonics
\* bip0039 is external.  A phrase is a string; Mnemonic::from_phrase accepts
\* the phrases of Phrases and rejects every other string, and to_seed("")
\* gives a phrase its 64-byte seed.

Phrases == {"fancy lemon", "acid zoo", "bad digest", "short hardened", "short normal",
            "ends in one"}
NotAPhrase == "not a phrase"

to_seed(phrase) ==
    CASE phrase = "fancy lemon" -> Rep(1, 64)
      [] phrase = "acid zoo" -> Rep(2, 64)
      [] phrase = "bad digest" -> BadSeed
      [] phrase = "short hardened" -> Rep(103, 64)
      [] phrase = "short normal" -> Rep(168, 64)
      [] phrase = "ends in one" -> Rep(190, 64)

\* Mnemonic::from_entropy accepts 128 to 256 bits in steps of 32 bits
EntropyLengths == {16, 20, 24, 28, 32}

\* Mnemonic::from_entropy(bytes).to_seed("")
EntropySeed(bytes) == Expand(Mix(bytes, 23), 64)

\* ------------------------------------------------------------------ Key

Networks == {"Mainnet", "Testnet"}

Key(bytes, network, compress_public_keys, chain_code) ==
    [bytes |-> bytes, network |-> network,
     compress_public_keys |-> compress_public_keys, chain_code |-> chain_code]

\* Key::new
Key_new(mnemonic, network, compress_public_keys) ==
    IF mnemonic \notin Phrases THEN Panic("unwrap")
    ELSE LET hash == sha512_hash(to_seed(mnemonic))
             chain_code == SplitOff(hash, 32)
             secret == SplitKeep(hash, 32)
         IN IF ~ValidScalar(secret) THEN Err("TooLong")
            ELSE Ok(Key(secret, network, compress_public_keys, chain_code))

\* Key::to_wif
to_wif(self) ==
    LET versioned == <<IF self.network = "Mainnet" THEN 128 ELSE 239>> \o self.bytes
        key == IF self.compress_public_keys THEN Append(versioned, 1) ELSE versioned
        checksum == SubSeq(sha256_hash_twice(key), 1, 4)
    IN Base58Encode(key \o checksum)

\* from_wif: hash_result[..4] != checksum, negated
ChecksumOffByOne(decoded, checksum) ==
    /\ Len(checksum) = 4
    /\ \A i \in 1..3 : sha256_hash_twice(decoded)[i] = checksum[i]

ChecksumMatches(decoded, checksum) ==
    SubSeq(sha256_hash_twice(decoded), 1, 4) = checksum

\* from_wif: decoded.len() > 32 && *last_byte == 0x01
CompressionFlagAnyLength(rest) == Last(rest) = 1

CompressionFlag(rest) == Len(rest) > 32 /\ Last(rest) = 1

\* Key::from_wif
from_wif(input) ==
    LET dec == Base58Decode(input)
    IN IF ~IsOk(dec) THEN Err("Decode")
       ELSE
       LET at == IF Len(dec.val) < 4 THEN 0 ELSE Len(dec.val) - 4
           checksum == SplitOff(dec.val, at)
           decoded == SplitKeep(dec.val, at)
       IN IF ~ChecksumMatches(decoded, checksum) THEN Err("ChecksumMismatch")
          ELSE IF decoded = <<>> THEN Panic("remove")
          ELSE IF Head(decoded) \notin {128, 239} THEN Err("InvalidNetworkByte")
          ELSE
          LET network == IF Head(decoded) = 128 THEN "Mainnet" ELSE "Testnet"
              rest == Tail(decoded)
          IN IF rest = <<>> THEN Err("InvalidFormat")
             ELSE
             LET compress_public_keys == CompressionFlag(rest)
                 bytes == IF compress_public_keys THEN Front(rest) ELSE rest
             IN IF Len(bytes) \notin EntropyLengths THEN Err("Decode")
                ELSE Ok(Key(bytes, network, compress_public_keys,
                            SplitOff(sha512_hash(EntropySeed(bytes)), 32)))

\* Key::new_public_key
new_public_key(self) ==
    IF ~ValidScalar(self.bytes) THEN Err("Other")
    ELSE IF self.compress_public_keys THEN Ok(SerializeCompressed(self.bytes))
    ELSE Ok(SerializeUncompressed(self.bytes))

\* Key::address
address(self) ==
    LET pubkey == new_public_key(self)
    IN IF ~IsOk(pubkey) THEN pubkey
       ELSE LET f_hash == sha256_hash(pubkey.val)
                encrypted_pubkey ==
                    <<IF self.network = "Mainnet" THEN 0 ELSE 111>>
                        \o ripemd160_hash(f_hash)
                checksum == sha256_hash_twice(encrypted_pubkey)
            IN Ok(Base58Encode(encrypted_pubkey \o checksum))

\* derive_child_private_key: the match on key_type that guards the index
IndexOutOfRangeFrom2Pow31(index, key_type) ==
    \/ key_type = "Normal" /\ UsizeGt(index, MaxNormalIndex)
    \/ key_type = "Hardened"
        /\ (~UsizeGt(index, MaxNormalIndex) \/ UsizeGt(index, MaxHardenedIndex))

IndexOutOfRange(index, key_type) ==
    \/ key_type = "Normal" /\ UsizeGt(index, MaxNormalIndex)
    \/ key_type = "Hardened"
        /\ (UsizeLt(index, MaxNormalIndex) \/ UsizeGt(index, MaxHardenedIndex))

\* derive_child_private_key: the first argument of hmac_sha512_hash.  The
\* Hardened arm appends the index to a copy of the key's bytes and then
\* hashes the key's bytes, not the copy.
HmacInput(self, index, key_type) ==
    IF key_type = "Normal"
    THEN new_public_key(self).val \o to_le_bytes(index)
    ELSE self.bytes

\* Key::derive_child_private_key
derive_child_private_key(self, index, key_type) ==
    IF IndexOutOfRange(index, key_type) THEN Err("IndexOutOfRange")
    ELSE
    LET pubkey == new_public_key(self)
    IN IF key_type = "Normal" /\ ~IsOk(pubkey) THEN pubkey
       ELSE
       LET hmac == hmac_sha512_hash(HmacInput(self, index, key_type), self.chain_code)
           chain_code == SplitOff(hmac, 32)
           hash == SplitKeep(hmac, 32)
           curve_order == from_signed_bytes_le(CURVE_ORDER)
           hash_int == from_signed_bytes_le(hash)
           prev_key == from_signed_bytes_le(self.bytes)
           key == BigRem(BigAdd(hash_int, prev_key), curve_order)
           private_key == to_signed_bytes_le(key)
       IN Ok(Key(private_key, self.network, self.compress_public_keys, chain_code))

\* A u32 is two 16-bit limbs, most significant first; `index as usize`
\* widens it to the four limbs of a usize.
U32(l1, l0) == <<l1, l0>>
U32AsUsize(index) == Usize(0, 0, index[1], index[2])

\* derive_child_public_key: original public key || index, the first argument
\* of hmac_sha512_hash
PublicHmacInput(self, index) == new_public_key(self).val \o to_le_bytes(index)

\* point_hmac + point_public, compressed.  The addition is an external
\* computation: a deterministic point of the two points added.
PointSum(hash, secret) ==
    LET both == PointX(hash) \o PointY(hash) \o PointX(secret) \o PointY(secret)
    IN <<2 + (Mix(both, 41) % 2)>> \o Expand(Mix(both, 37), 32)

\* Key::derive_child_public_key
derive_child_public_key(self, index) ==
    IF CmpBE(index, U32(32767, 65535)) = 1 THEN Err("IndexOutOfRange")
    ELSE
    LET original_pubkey == new_public_key(self)
    IN IF ~IsOk(original_pubkey) THEN original_pubkey
       ELSE
       LET hmac == hmac_sha512_hash(PublicHmacInput(self, index), self.chain_code)
           chain_code == SplitOff(hmac, 32)
           hash == SplitKeep(hmac, 32)
       IN IF ~ValidScalar(hash) THEN Panic("unwrap")
          ELSE Ok(PointSum(hash, self.bytes) \o chain_code)

\* ------------------------------------------------------------------ strings
\* A String of hexadecimal digits is the sequence of the values of its
\* digits, 0 to 15, written in lower case.

\* String::as_bytes: the ASCII codes of the digits
as_bytes(s) == [i \in 1..Len(s) |-> IF s[i] < 10 THEN 48 + s[i] ELSE 87 + s[i]]

\* hex::encode: two digits a byte, the high one first
hex_encode(bytes) ==
    [i \in 1..(2 * Len(bytes)) |->
        IF i % 2 = 1 THEN bytes[(i + 1) \div 2] \div 16 ELSE bytes[i \div 2] % 16]

\* hex::decode
hex_decode(s) ==
    IF Len(s) % 2 = 1 THEN Err("OddLength")
    ELSE Ok([i \in 1..(Len(s) \div 2) |-> 16 * s[2 * i - 1] + s[2 * i]])

\* The digits of n, base 16, the most significant first
RECURSIVE HexDigits(_)
HexDigits(n) == IF n < 16 THEN <<n>> ELSE Append(HexDigits(n \div 16), n % 16)

\* The 0 flag of a format: zeroes in front up to the width, which is a
\* minimum and cuts nothing off
PadZeros(digits, width) == Rep(0, width - Len(digits)) \o digits

\* format!("{:02x}", n), format!("{:08x}", n) of an unsigned n
format_x(n, width) == PadZeros(HexDigits(n), width)

\* format!("{:08x}", v) of an i32 and format!("{:016x}", v) of an i64: a
\* negative v is written as its two's complement of that many bits
format_x_signed(v, bits, width) ==
    IF v >= 0 THEN format_x(v, width)
    ELSE LET low == PadZeros(HexDigits((v + 2147483647) + 1), 8)
         IN PadZeros(Rep(15, bits \div 4 - 8) \o <<low[1] + 8>> \o Tail(low), width)

\* A u128 is eight 16-bit limbs, most significant first.
U128(l2, l1, l0) == Rep(0, 5) \o <<l2, l1, l0>>

LimbDigits(l) == <<l \div 4096, (l \div 256) % 16, (l \div 16) % 16, l % 16>>

\* format!("{:08x}", n) of a u128
format_x_u128(w, width) ==
    LET all == [i \in 1..(4 * Len(w)) |->
                    LimbDigits(w[(i + 3) \div 4])[((i - 1) % 4) + 1]]
        digits == IF StripLeadingZeros(all) = <<>> THEN <<0>>
                  ELSE StripLeadingZeros(all)
    IN PadZeros(digits, width)

\* utils::reverse_byte_order
reverse_byte_order(s) ==
    IF ~IsOk(hex_decode(s)) THEN Panic("unwrap")
    ELSE Ok(hex_encode(Reverse(hex_decode(s).val)))

\* ------------------------------------------------------------------ signatures

\* A DER integer: no zero byte in front but the one that keeps it positive
DerInteger(x) ==
    LET m == IF StripLeadingZeros(x) = <<>> THEN <<0>> ELSE StripLeadingZeros(x)
        v == IF m[1] > 127 THEN <<0>> \o m ELSE m
    IN <<2, Len(v)>> \o v

\* secp.sign(message, secret), DER-serialized.  The signature is an external
\* computation: a deterministic r and a deterministic s of the lower half
\* of the range, in DER.
DerSignature(secret, message) ==
    LET r == Expand(Mix(secret \o message, 43), 32)
        s == Expand(Mix(secret \o message, 47), 32)
        low_s == <<s[1] % 128>> \o Tail(s)
        body == DerInteger(r) \o DerInteger(low_s)
    IN <<48, Len(body)>> \o body

\* Key::sign_data: the bytes of the string the signature is displayed as
sign_data(self, signing_bytes) ==
    IF Len(signing_bytes) # 32 THEN Panic("unwrap")
    ELSE IF ~ValidScalar(self.bytes) THEN Panic("unwrap")
    ELSE Ok(as_bytes(hex_encode(DerSignature(self.bytes, signing_bytes))))

\* ------------------------------------------------------------------ Transaction

\* TransactionVersion::as_ver_string
as_ver_string(version) == <<0, 1, 0, 0, 0, 0, 0, 0>>

\* TransactionOutput::new
TransactionOutput_new(tx_type, k, value) ==
    IF ~IsOk(new_public_key(k)) THEN Panic("unwrap")
    ELSE LET sha_hash == sha256_hash(new_public_key(k).val)
             pk_hash == ripemd160_hash(sha_hash)
             pk_script == <<7, 6, 10, 9, 1, 4>> \o hex_encode(pk_hash)
                             \o <<8, 8, 10, 12>>
         IN Ok([value |-> value, pk_script |-> hex_decode(pk_script).val])

\* TransactionInput::new
TransactionInput_new(utxo, tx_id, index) ==
    [previous_output |-> [hash |-> tx_id, index |-> index],
     signature_script |-> <<>>,
     utxo_pk_script |-> utxo.pk_script]

\* Transaction::new, with the reading of the clock: the milliseconds since
\* the epoch, or an error when the clock is set before the epoch
Transaction_new(tx_type, inputs, outputs, lock_time, now) ==
    IF lock_time = None /\ ~IsOk(now) THEN Panic("time went backwards")
    ELSE Ok([tx_type |-> tx_type,
             version |-> "One",
             tx_in |-> inputs,
             tx_out |-> outputs,
             lock_time |-> IF lock_time = None THEN now.val ELSE lock_time.val])

\* What push_str appends: the text, and the field of the transaction the
\* code appends it as.  The String a call returns is the texts in a row.
Piece(field, text) == [field |-> field, text |-> text]

RECURSIVE Concat(_)
Concat(seqs) == IF seqs = <<>> THEN <<>> ELSE Head(seqs) \o Concat(Tail(seqs))

PushedString(pieces) == Concat([i \in 1..Len(pieces) |-> pieces[i].text])

\* pre_sign: the body of the loop over the inputs
PreSignInput(input) ==
    <<Piece("tx_id", input.previous_output.hash),
      Piece("vout",
            reverse_byte_order(format_x_signed(input.previous_output.index,
                                               32, 8)).val),
      Piece("script_bytes", format_x(Len(input.utxo_pk_script), 2)),
      Piece("script", hex_encode(input.utxo_pk_script))>>

\* pre_sign: the body of the loop over the outputs
PreSignOutput(out) ==
    <<Piece("value", format_x_signed(out.value, 64, 16)),
      Piece("pk_script_bytes", format_x(Len(out.pk_script), 2)),
      Piece("pk_script", hex_encode(out.pk_script))>>

\* Transaction::pre_sign
pre_sign(self) ==
    LET num_outputs_hex == reverse_byte_order(format_x(Len(self.tx_out), 2))
    IN IF ~IsOk(num_outputs_hex) THEN num_outputs_hex
       ELSE Ok(<<Piece("version", as_ver_string(self.version)),
                 Piece("num_inputs", format_x(Len(self.tx_in), 2))>>
               \o Concat([i \in 1..Len(self.tx_in) |-> PreSignInput(self.tx_in[i])])
               \o <<Piece("sequence", Rep(15, 8)),
                    Piece("num_outputs", num_outputs_hex.val)>>
               \o Concat([i \in 1..Len(self.tx_out) |->
                             PreSignOutput(self.tx_out[i])])
               \o <<Piece("lock_time", format_x_u128(self.lock_time, 8))>>)

\* sign: the signature script, a String
SigScript(signature, pk) ==
    format_x(Len(signature), 2) \o hex_encode(signature)
        \o format_x(Len(pk), 2) \o hex_encode(pk)

\* sign: the body of the loop over the inputs
SignInput(input, sig_script) ==
    <<Piece("tx_id", input.previous_output.hash),
      Piece("vout",
            reverse_byte_order(format_x_signed(input.previous_output.index,
                                               32, 8)).val),
      Piece("script_bytes", format_x(Len(sig_script), 2)),
      Piece("script", hex_encode(as_bytes(sig_script)))>>

\* sign: the body of the loop over the outputs, with the value pushed last
SignOutputValueLast(out) ==
    <<Piece("pk_script_bytes", format_x(Len(out.pk_script), 2)),
      Piece("pk_script", hex_encode(out.pk_script)),
      Piece("value", format_x_signed(out.value, 64, 16))>>

\* sign: the body of the loop over the outputs
SignOutput(out) ==
    <<Piece("value", format_x_signed(out.value, 64, 16)),
      Piece("pk_script_bytes", format_x(Len(out.pk_script), 2)),
      Piece("pk_script", hex_encode(out.pk_script))>>

\* sign from the signature script on
Signed(self, sig_script) ==
    LET num_outputs_hex == reverse_byte_order(format_x(Len(self.tx_out), 2))
    IN IF ~IsOk(num_outputs_hex) THEN num_outputs_hex
       ELSE Ok(<<Piece("version", as_ver_string(self.version)),
                 Piece("num_inputs", format_x(Len(self.tx_in), 2))>>
               \o Concat([i \in 1..Len(self.tx_in) |->
                             SignInput(self.tx_in[i], sig_script)])
               \o <<Piece("sequence", Rep(15, 8)),
                    Piece("num_outputs", num_outputs_hex.val)>>
               \o Concat([i \in 1..Len(self.tx_out) |-> SignOutput(self.tx_out[i])])
               \o <<Piece("lock_time", format_x_u128(self.lock_time, 8))>>)

\* sign from the hash of the presigned transaction on
SignHashed(self, k, signature) ==
    IF ~IsOk(signature) THEN signature
    ELSE IF ~IsOk(new_public_key(k)) THEN Panic("unwrap")
    ELSE CHOOSE out \in
           {Signed(self, sig_script) :
               sig_script \in {SigScript(Append(signature.val, 1),
                                         new_public_key(k).val)}} : TRUE

\* Transaction::sign
sign(self, k) ==
    IF ~IsOk(pre_sign(self)) THEN pre_sign(self)
    ELSE CHOOSE out \in
           {SignHashed(self, k, signature) :
               signature \in
                   {sign_data(k, sha256_hash_twice(
                                     as_bytes(PushedString(pre_sign(self).val)
                                              \o format_x(1, 8))))}} : TRUE

\* ------------------------------------------------------------------ state

VARIABLES
    pc,       \* "idle", "returned" (a wallet call has returned its result),
              \* "get_address" (inside the loop of get_address) or "aborted"
              \* (a panic ended the process)
    key,      \* the Key the caller holds: None or Some(Key)
    wif,      \* the WIF string the caller holds: None or
              \* [tag |-> "Some", val, bytes, of, change]: the string, the
              \* bytes it encodes, the Key it was made of and how the
              \* caller changed it since to_wif
    call,     \* the last operation called: its name, its arguments, its result
    wallet,   \* the Wallet the caller holds
    disk,     \* the file system: what each path holds
    tx        \* the Transaction the caller holds: None or Some(Transaction)

kvars == <<key, wif>>
wvars == <<wallet, disk>>
tvars == <<tx>>
vars == <<pc, call, key, wif, wallet, disk, tx>>

\* ------------------------------------------------------------------ inputs

Zero32 == Rep(0, 32)
One32 == Rep(0, 31) \o <<1>>
OrderMinusOne == Front(CURVE_ORDER) \o <<64>>
AllOnes32 == Rep(255, 32)
\* a valid scalar whose last byte has its top bit set
HighLast32 == <<5>> \o Rep(7, 30) \o <<200>>

Checked(payload) == payload \o SubSeq(sha256_hash_twice(payload), 1, 4)

\* The WIF strings a caller imports: well-formed ones of scalars inside and
\* outside the curve's range, and malformed ones.
WifPayloads ==
    {vc[1] \o b \o vc[2] :
        vc \in {<<<<128>>, <<1>>>>, <<<<239>>, <<>>>>},
        b \in {Zero32, One32, OrderMinusOne, CURVE_ORDER, AllOnes32, HighLast32}}
    \cup {<<128>> \o Rep(9, 16),            \* 128 bits of entropy
          <<128>> \o Rep(9, 32) \o <<2>>,   \* 33 bytes, no compression flag
          <<128>>,                          \* a version byte and no key
          <<>>}                             \* nothing but a checksum

ImportedWifs ==
    {Base58Encode(Checked(p)) : p \in WifPayloads}
    \cup {<<>>, <<58, 1, 2>>, Base58Encode(<<128>> \o One32 \o <<1, 2, 3, 4>>)}

\* The indices a caller derives at: both ends of both windows and beyond
IndexSamples ==
    {Usize(0, 0, 0, 0), Usize(0, 0, 0, 1),
     Usize(0, 0, 32767, 65534), Usize(0, 0, 32767, 65535),
     Usize(0, 0, 32768, 0), Usize(0, 0, 65535, 65535),
     Usize(0, 1, 0, 0), Usize(0, 1, 0, 1),
     Usize(65535, 65535, 65535, 65535)}

\* The indices a caller derives public keys at: both ends of the window and
\* beyond
U32Samples ==
    {U32(0, 0), U32(0, 1), U32(32767, 65535), U32(32768, 0), U32(65535, 65535)}

ChildKeyTypes == {"Normal", "Hardened"}

NoCall == [op |-> "none"]

\* ------------------------------------------------------------------ Key calls

Returned(ret) == IF IsPanic(ret) THEN "aborted" ELSE "idle"

KeyInit ==
    /\ pc = "idle"
    /\ key = None
    /\ wif = None
    /\ call = NoCall
    /\ wallet = None
    /\ disk = <<>>
    /\ tx = None

\* A caller gets a Key from a phrase or from an imported string, derives
\* children of it, encodes it, and decodes the string again, as it is or
\* with one byte changed.

\* let key = Key::new(mnemonic, network, compress_public_keys)
CallKeyNew ==
    /\ pc = "idle"
    /\ key = None
    /\ \E mnemonic \in Phrases \cup {NotAPhrase}, network \in Networks,
          compress_public_keys \in BOOLEAN :
        LET ret == Key_new(mnemonic, network, compress_public_keys)
        IN /\ call' = [op |-> "new", mnemonic |-> mnemonic, ret |-> ret]
           /\ key' = IF IsOk(ret) THEN Some(ret.val) ELSE key
           /\ pc' = Returned(ret)
    /\ UNCHANGED <<wif, wvars, tvars>>

\* let key = Key::from_wif(input), on a string from outside
CallImportWif ==
    /\ pc = "idle"
    /\ key = None
    /\ \E input \in ImportedWifs :
        LET ret == from_wif(input)
        IN /\ call' = [op |-> "from_wif", input |-> input, of |-> None,
                       change |-> "imported", ret |-> ret]
           /\ key' = IF IsOk(ret) THEN Some(ret.val) ELSE key
           /\ pc' = Returned(ret)
    /\ UNCHANGED <<wif, wvars, tvars>>

\* key.derive_child_private_key(index, key_type)
CallDeriveChildPrivateKey ==
    /\ pc = "idle"
    /\ key # None
    /\ wif = None
    /\ \E index \in IndexSamples, key_type \in ChildKeyTypes :
        call' = [op |-> "derive_child_private_key", self |-> key.val,
                 index |-> index, key_type |-> key_type,
                 ret |-> derive_child_private_key(key.val, index, key_type)]
    /\ UNCHANGED <<pc, key, wif, wvars, tvars>>

\* key.derive_child_public_key(index)
CallDeriveChildPublicKey ==
    /\ pc = "idle"
    /\ key # None
    /\ wif = None
    /\ \E index \in U32Samples :
        LET ret == derive_child_public_key(key.val, index)
        IN /\ call' = [op |-> "derive_child_public_key", self |-> key.val,
                       index |-> index, ret |-> ret]
           /\ pc' = Returned(ret)
    /\ UNCHANGED <<key, wif, wvars, tvars>>

\* let wif = key.to_wif()
CallToWif ==
    /\ pc = "idle"
    /\ key # None
    /\ wif = None
    /\ LET ret == to_wif(key.val)
       IN /\ call' = [op |-> "to_wif", self |-> key.val, ret |-> ret]
          /\ wif' = [tag |-> "Some", val |-> ret, bytes |-> Base58Decode(ret).val,
                     of |-> key.val, change |-> "none"]
    /\ UNCHANGED <<pc, key, wvars, tvars>>

\* The caller changes one byte of the checksum of the string it holds.
ChangeChecksumByte ==
    /\ pc = "idle"
    /\ wif # None
    /\ wif.change = "none"
    /\ \E i \in 1..4, delta \in {1, 128} :
        LET at == Len(wif.bytes) - 4 + i
            changed == [wif.bytes EXCEPT ![at] = (@ + delta) % 256]
        IN wif' = [wif EXCEPT !.val = Base58Encode(changed), !.bytes = changed,
                              !.change = "checksum"]
    /\ UNCHANGED <<pc, key, call, wvars, tvars>>

\* The caller changes the version byte of the string it holds to a value
\* that names no network, and keeps the old checksum or computes a new one.
ChangeVersionByte ==
    /\ pc = "idle"
    /\ wif # None
    /\ wif.change = "none"
    /\ \E v \in {0, 129}, recompute \in BOOLEAN :
        LET n == Len(wif.bytes)
            payload == <<v>> \o SubSeq(wif.bytes, 2, n - 4)
            changed == IF recompute THEN Checked(payload)
                       ELSE payload \o SubSeq(wif.bytes, n - 3, n)
        IN wif' = [wif EXCEPT !.val = Base58Encode(changed), !.bytes = changed,
                              !.change = IF recompute THEN "version and checksum"
                                         ELSE "version"]
    /\ UNCHANGED <<pc, key, call, wvars, tvars>>

\* let key = Key::from_wif(wif), on the string the caller holds
CallFromWif ==
    /\ pc = "idle"
    /\ wif # None
    /\ call.op # "from_wif"
    /\ LET ret == from_wif(wif.val)
       IN /\ call' = [op |-> "from_wif", input |-> wif.val, of |-> Some(wif.of),
                      change |-> wif.change, ret |-> ret]
          /\ pc' = Returned(ret)
    /\ UNCHANGED <<key, wif, wvars, tvars>>

KeyNext ==
    \/ CallKeyNew
    \/ CallImportWif
    \/ CallToWif
    \/ ChangeChecksumByte
    \/ ChangeVersionByte
    \/ CallFromWif
    \/ CallDeriveChildPrivateKey
    \/ CallDeriveChildPublicKey

KeySpec == KeyInit /\ [][KeyNext]_vars

\* ------------------------------------------------------------------ Transaction calls

\* The most inputs and the most outputs a transaction is made with
MaxInputs == 2
MaxOutputs == 2

\* The transaction every input spends from, the output index of the i-th
\* input and the value of the i-th output: an i32 and an i64, of either sign
SpentTxId == Rep(10, 64)
VoutOf(i) == IF i = 2 THEN -1 ELSE i - 1
ValueOf(i) == IF i = 2 THEN -1 ELSE 5000 * i

\* The lock times a caller passes: 0, 2^32 - 1, 2^32, or none
LockTimes ==
    {Some(U128(0, 0, 0)), Some(U128(0, 65535, 65535)), Some(U128(1, 0, 0)), None}

\* What SystemTime::now() reads when no lock time is passed: a clock set
\* before the epoch, set to a minute after it, or set to 1 April 2021
ClockReadings ==
    {Err("before the epoch"), Ok(U128(0, 0, 60000)), Ok(U128(376, 35514, 51200))}
NoReading == Ok(U128(0, 0, 0))

\* The inputs and the outputs of a transaction, made of the key: a panic of
\* TransactionOutput::new, or the vectors
MadeOf(k, num_inputs, num_outputs) ==
    IF num_inputs + num_outputs > 0
       /\ ~IsOk(TransactionOutput_new("Pay2PubKeyHash", k, 0))
    THEN Panic("unwrap")
    ELSE Ok([inputs |->
                [i \in 1..num_inputs |->
                    TransactionInput_new(
                        TransactionOutput_new("Pay2PubKeyHash", k, 50000).val,
                        SpentTxId, VoutOf(i))],
             outputs |->
                [i \in 1..num_outputs |->
                    TransactionOutput_new("Pay2PubKeyHash", k, ValueOf(i)).val]])

\* let tx = Transaction::new(tx_type, inputs, outputs, lock_time), the inputs
\* spending outputs to the key and the outputs paying to it
CallTransactionNew ==
    /\ pc = "idle"
    /\ key # None
    /\ tx = None
    /\ \E num_inputs \in 0..MaxInputs, num_outputs \in 0..MaxOutputs,
          lock_time \in LockTimes, now \in ClockReadings \cup {NoReading} :
        /\ (lock_time = None) = (now \in ClockReadings)
        /\ \E made \in {MadeOf(key.val, num_inputs, num_outputs)} :
            LET ret == IF ~IsOk(made) THEN made
                       ELSE Transaction_new("Pay2PubKeyHash", made.val.inputs,
                                            made.val.outputs, lock_time, now)
            IN /\ call' = [op |-> "Transaction::new", lock_time |-> lock_time,
                           ret |-> ret]
               /\ tx' = IF IsOk(ret) THEN Some(ret.val) ELSE tx
               /\ pc' = Returned(ret)
    /\ UNCHANGED <<kvars, wvars>>

\* tx.pre_sign()
CallPreSign ==
    /\ pc = "idle"
    /\ tx # None
    /\ \E ret \in {pre_sign(tx.val)} :
        /\ call' = [op |-> "pre_sign", self |-> tx.val, ret |-> ret]
        /\ pc' = Returned(ret)
    /\ UNCHANGED <<kvars, wvars, tvars>>

\* tx.sign(key)
CallSign ==
    /\ pc = "idle"
    /\ tx # None
    /\ key # None
    /\ \E ret \in {sign(tx.val, key.val)} :
        /\ call' = [op |-> "sign", self |-> tx.val, key |-> key.val, ret |-> ret]
        /\ pc' = Returned(ret)
    /\ UNCHANGED <<kvars, wvars, tvars>>

\* A caller gets a Key, makes a transaction, and serializes it unsigned and
\* signed.
TxNext ==
    \/ CallKeyNew
    \/ CallImportWif
    \/ CallTransactionNew
    \/ CallPreSign
    \/ CallSign

TxSpec == KeyInit /\ [][TxNext]_vars

\* ------------------------------------------------------------------ Wallet

\* KeyPair
KeyPair(private_key, public_key, key_type, index) ==
    [private_key |-> private_key, public_key |-> public_key,
     key_type |-> key_type, index |-> index]

\* libarena: a node of the arena, its data, its label and its parent's id
Node(data, label, parent) == [data |-> data, label |-> label, parent |-> parent]

\* Arena::new()
ArenaNew == [nodes |-> <<>>, root |-> None]

\* Arena::insert appends the node; its id is its position, counted from 0
ArenaInsert(arena, data, label, parent) ==
    [arena EXCEPT !.nodes = Append(@, Node(data, label, parent))]

\* Arena::get_inner
ArenaGetInner(arena, id) ==
    IF id < Len(arena.nodes) THEN Some(arena.nodes[id + 1].data) ELSE None

\* Wallet::new
Wallet_new(network, path, compress_public_keys, encrypted) ==
    [network |-> network,
     path |-> path,
     next_hardened_index |-> MaxNormalIndex,
     next_normal_index |-> Usize(0, 0, 0, 1),
     compress_public_keys |-> compress_public_keys,
     arena |-> ArenaNew,
     encrypted |-> encrypted]

\* The file system. A path holds no file, a directory, or a JSON document:
\* a JSON string (what serde_json makes of a PathBuf) or a JSON object with
\* the fields of a Wallet.
NoFile == [kind |-> "NoFile"]
Directory == [kind |-> "Directory"]
JsonString(value) == [kind |-> "String", string |-> value]
JsonWallet(value) == [kind |-> "Object", object |-> value]

\* fs::write(&self.path, json)
fs_write(fs, path, json) ==
    IF fs[path] = Directory THEN [ret |-> Err("Write"), disk |-> fs]
    ELSE [ret |-> Ok(<<>>), disk |-> [fs EXCEPT ![path] = json]]

\* fs::read_to_string(path)
fs_read_to_string(fs, path) ==
    IF fs[path] \in {NoFile, Directory} THEN Err("Read") ELSE Ok(fs[path])

\* serde_json::from_str::<Wallet>(&data)
serde_json_from_str(data) ==
    IF data.kind = "Object" THEN Ok(data.object) ELSE Err("Read")

\* .map_err(|e| WalletError::Key(e.to_string()))
MapKeyErr(r) == IF IsErr(r) THEN Err("Key") ELSE r

\* Wallet::flush
flush(self, fs) ==
    LET json == JsonString(self.path)
    IN IF self.encrypted THEN [ret |-> Panic("todo"), disk |-> fs]
       ELSE fs_write(fs, self.path, json)

\* Wallet::insert
insert(self, keys, parent) ==
    CHOOSE inserted \in
        {IF ~IsOk(label) THEN [ret |-> MapKeyErr(label), wallet |-> self]
         ELSE [ret |-> Ok(Len(self.arena.nodes)),
               wallet |-> [self EXCEPT
                              !.arena = ArenaInsert(@, keys, label.val, parent)]] :
            label \in {address(keys.private_key)}} : TRUE

\* generate_master_key from the insertion of the key pair on
MasterInserted(index, mnemonic, k) ==
    IF ~IsOk(index.ret) THEN index
    ELSE [ret |-> Ok([mnemonic |-> mnemonic, key |-> k]),
          wallet |-> [index.wallet EXCEPT !.arena.root = Some(index.ret.val)]]

\* Wallet::generate_master_key, with the phrase generate_mnemonic() drew
generate_master_key(self, mnemonic, compress_public_keys) ==
    CHOOSE made \in
        {IF ~IsOk(k) THEN [ret |-> MapKeyErr(k), wallet |-> self]
         ELSE IF ~IsOk(new_public_key(k.val))
         THEN [ret |-> MapKeyErr(new_public_key(k.val)), wallet |-> self]
         ELSE CHOOSE out \in
                {MasterInserted(index, mnemonic, k.val) :
                    index \in {insert(self,
                                      KeyPair(k.val, new_public_key(k.val).val,
                                              "Master", None),
                                      None)}} : TRUE :
            k \in {Key_new(mnemonic, self.network, compress_public_keys)}} : TRUE

\* Wallet::create_key_chain. The result carries the wallet and the file
\* system the call leaves, and what its flush returned.
NoFlush == [tag |-> "NoFlush"]

\* create_key_chain where a `?` leaves it
ChainLeft(r, w, fs) ==
    [ret |-> MapKeyErr(r), wallet |-> w, disk |-> fs, flush |-> NoFlush]

\* create_key_chain from `let _ = self.flush()` on
ChainFlushed(flushed, w, mnemonic) ==
    [ret |-> IF IsPanic(flushed.ret) THEN flushed.ret ELSE Ok(mnemonic),
     wallet |-> w, disk |-> flushed.disk, flush |-> flushed.ret]

\* create_key_chain from `let _ = self.insert(child_key_pair, ..)` on
ChainChildInserted(w, mnemonic, fs) ==
    CHOOSE out \in
        {ChainFlushed(flushed, w, mnemonic) : flushed \in {flush(w, fs)}} : TRUE

\* create_key_chain from the derivation of the normal child on
ChainChildDerived(w2, child_key, hardened_index, mnemonic, fs) ==
    IF ~IsOk(child_key) THEN ChainLeft(child_key, w2, fs)
    ELSE IF ~IsOk(new_public_key(child_key.val))
    THEN ChainLeft(new_public_key(child_key.val), w2, fs)
    ELSE CHOOSE out \in
           {ChainChildInserted(inserted.wallet, mnemonic, fs) :
               inserted \in
                   {insert([w2 EXCEPT !.next_normal_index = UsizeInc(@)],
                           KeyPair(child_key.val,
                                   new_public_key(child_key.val).val,
                                   "Normal", Some(w2.next_normal_index)),
                           Some(hardened_index))}} : TRUE

\* create_key_chain from the insertion of the hardened child on
ChainHardenedInserted(hardened_index, hardened_key, mnemonic, fs) ==
    IF ~IsOk(hardened_index.ret)
    THEN ChainLeft(hardened_index.ret, hardened_index.wallet, fs)
    ELSE CHOOSE out \in
           {ChainChildDerived(hardened_index.wallet, child_key,
                              hardened_index.ret.val, mnemonic, fs) :
               child_key \in
                   {derive_child_private_key(
                        hardened_key,
                        hardened_index.wallet.next_normal_index,
                        "Normal")}} : TRUE

\* create_key_chain from the derivation of the hardened child on
ChainHardenedDerived(self, hardened_key, mnemonic, fs) ==
    IF ~IsOk(hardened_key) THEN ChainLeft(hardened_key, self, fs)
    ELSE IF ~IsOk(new_public_key(hardened_key.val))
    THEN ChainLeft(new_public_key(hardened_key.val), self, fs)
    ELSE CHOOSE out \in
           {ChainHardenedInserted(hardened_index, hardened_key.val, mnemonic, fs) :
               hardened_index \in
                   {insert([self EXCEPT !.next_hardened_index = UsizeInc(@)],
                           KeyPair(hardened_key.val,
                                   new_public_key(hardened_key.val).val,
                                   "Hardened", Some(self.next_hardened_index)),
                           self.arena.root)}} : TRUE

create_key_chain(self, k, mnemonic, fs) ==
    CHOOSE out \in
        {ChainHardenedDerived(self, hardened_key, mnemonic, fs) :
            hardened_key \in
                {derive_child_private_key(k, self.next_hardened_index,
                                          "Hardened")}} : TRUE

\* Wallet::init, with the phrase generate_mnemonic() drew
init(self, mnemonic, fs) ==
    CHOOSE out \in
        {IF ~IsOk(master.ret)
         THEN [ret |-> master.ret, wallet |-> master.wallet, disk |-> fs,
               flush |-> NoFlush]
         ELSE create_key_chain(master.wallet, master.ret.val.key, mnemonic, fs) :
            master \in {generate_master_key(self, mnemonic,
                                            self.compress_public_keys)}} : TRUE

\* Wallet::restore
restore(mnemonic, network, compress_public_keys, data_path, encrypted, fs) ==
    CHOOSE out \in
        {IF ~IsOk(k) THEN [ret |-> MapKeyErr(k), disk |-> fs, flush |-> NoFlush]
         ELSE CHOOSE restored \in
                {[ret |-> IF IsOk(chain.ret) THEN Ok(chain.wallet) ELSE chain.ret,
                  disk |-> chain.disk, flush |-> chain.flush] :
                    chain \in
                        {create_key_chain(
                             Wallet_new(network, data_path,
                                        compress_public_keys, encrypted),
                             k.val, mnemonic, fs)}} : TRUE :
            k \in {Key_new(mnemonic, network, compress_public_keys)}} : TRUE

\* Wallet::from_wallet_file
from_wallet_file(path, fs) ==
    LET data == fs_read_to_string(fs, path)
    IN IF ~IsOk(data) THEN data ELSE serde_json_from_str(data.val)

\* Wallet::set_path
set_path(self, path, fs) ==
    CHOOSE out \in
        {[ret |-> flushed.ret, wallet |-> [self EXCEPT !.path = path],
          disk |-> flushed.disk] :
            flushed \in {flush([self EXCEPT !.path = path], fs)}} : TRUE

\* Wallet::set_encryption
set_encryption(self, encrypted) == [self EXCEPT !.encrypted = encrypted]

\* addresses as a loop that passes over a key whose address fails
RECURSIVE AddressesSkippingFailures(_, _, _)
AddressesSkippingFailures(nodes, i, output) ==
    IF i > Len(nodes) THEN Ok(output)
    ELSE CHOOSE out \in
           {AddressesSkippingFailures(
                nodes, i + 1,
                IF IsOk(a) THEN Append(output, a.val) ELSE output) :
               a \in {address(nodes[i].data.private_key)}} : TRUE

\* Wallet::addresses: the loop over the nodes, from node i on
RECURSIVE AddressesFrom(_, _, _)
AddressesFrom(nodes, i, output) ==
    IF i > Len(nodes) THEN Ok(output)
    ELSE CHOOSE out \in
           {IF ~IsOk(a) THEN Err("Other")
            ELSE AddressesFrom(nodes, i + 1, Append(output, a.val)) :
               a \in {address(nodes[i].data.private_key)}} : TRUE

addresses(self) == AddressesFrom(self.arena.nodes, 1, <<>>)

\* Wallet::get
get(self, index) == ArenaGetInner(self.arena, index)

\* Wallet::get_address. "loop" stands for reaching the loop of line 248,
\* which has no exit.
Loops == [tag |-> "loop"]

\* get_address from the match on the root node on
RootChecked(node, addr) ==
    IF node = None THEN None
    ELSE CHOOSE out \in
           {IF ~IsOk(node_address) THEN None
            ELSE IF addr = node_address.val THEN Some(node.val.private_key)
            ELSE Loops :
               node_address \in {address(node.val.private_key)}} : TRUE

get_address(self, addr) ==
    IF self.arena.root = None THEN None
    ELSE RootChecked(get(self, self.arena.root.val), addr)

\* ------------------------------------------------------------------ Wallet calls

\* The most nodes an arena is grown to
MaxNodes == 3

\* The most nodes without a parent an arena is grown to
MaxMasters == 2

\* The most nodes an arena is grown to by init alone, one key chain after
\* another
MaxChainNodes == 6

\* The paths a caller stores a wallet at, and the files it loads
Paths == {"wallet.json", "/tmp"}
Files == Paths \cup {"backup.json"}

\* The phrases generate_mnemonic() draws, and the ones a caller restores from
GeneratedPhrases == {"fancy lemon", "bad digest", "short hardened", "short normal"}

\* The arguments of Wallet::new and of Wallet::restore
NewWallets ==
    {[network |-> "Mainnet", path |-> "wallet.json",
      compress_public_keys |-> TRUE, encrypted |-> FALSE],
     [network |-> "Testnet", path |-> "/tmp",
      compress_public_keys |-> FALSE, encrypted |-> FALSE]}

\* A wallet file from outside, as serde writes a Wallet: the wallet a restore
\* built, in which the private key of the second node was then overwritten
\* with zeroes.
BackupWallet ==
    [restore("fancy lemon", "Mainnet", TRUE, "backup.json", FALSE,
             [p \in Files |-> NoFile]).ret.val
        EXCEPT !.arena.nodes[2].data.private_key.bytes = Zero32]

\* Where a call leaves the caller: with its result, or with none after a
\* panic
Resulted(ret) == IF IsPanic(ret) THEN "aborted" ELSE "returned"

Masters(w) == {i \in DOMAIN w.arena.nodes : w.arena.nodes[i].parent = None}

WalletInit ==
    /\ pc = "idle"
    /\ key = None
    /\ wif = None
    /\ call = NoCall
    /\ \E a \in NewWallets :
        wallet = Wallet_new(a.network, a.path, a.compress_public_keys, a.encrypted)
    /\ disk = [p \in Files |->
                 CASE p = "/tmp" -> Directory
                   [] p = "backup.json" -> JsonWallet(BackupWallet)
                   [] OTHER -> NoFile]
    /\ tx = None

\* wallet.init()
CallInit ==
    /\ pc = "idle"
    /\ Len(wallet.arena.nodes) + 3 <= MaxNodes
    /\ \E mnemonic \in GeneratedPhrases :
        \E r \in {init(wallet, mnemonic, disk)} :
           /\ call' = [op |-> "init", new |-> wallet.arena.nodes = <<>>,
                       ret |-> r.ret, flush |-> r.flush]
           /\ wallet' = r.wallet
           /\ disk' = r.disk
           /\ pc' = Resulted(r.ret)
    /\ UNCHANGED <<kvars, tvars>>

\* wallet.generate_master_key(compress_public_keys), with the setting of the
\* wallet as init passes it
CallGenerateMasterKey ==
    /\ pc = "idle"
    /\ Len(wallet.arena.nodes) + 1 <= MaxNodes
    /\ Cardinality(Masters(wallet)) < MaxMasters
    /\ \E mnemonic \in GeneratedPhrases :
        \E r \in {generate_master_key(wallet, mnemonic,
                                       wallet.compress_public_keys)} :
           /\ call' = [op |-> "generate_master_key", ret |-> r.ret]
           /\ wallet' = r.wallet
           /\ pc' = Resulted(r.ret)
    /\ UNCHANGED <<kvars, tvars, disk>>

\* let wallet = Wallet::restore(mnemonic, network, compress_public_keys,
\* data_path, encrypted), in place of a wallet that is still empty
CallRestore ==
    /\ pc = "idle"
    /\ wallet.arena.nodes = <<>>
    /\ \E mnemonic \in GeneratedPhrases \cup {NotAPhrase}, a \in NewWallets :
        \E r \in {restore(mnemonic, a.network, a.compress_public_keys, a.path,
                         a.encrypted, disk)} :
           /\ call' = [op |-> "restore", new |-> TRUE, ret |-> r.ret,
                       flush |-> r.flush]
           /\ wallet' = IF IsOk(r.ret) THEN r.ret.val ELSE wallet
           /\ disk' = r.disk
           /\ pc' = Resulted(r.ret)
    /\ UNCHANGED <<kvars, tvars>>

\* wallet.set_path(path)
CallSetPath ==
    /\ pc = "idle"
    /\ \E path \in Paths :
        \E r \in {set_path(wallet, path, disk)} :
           /\ call' = [op |-> "set_path", path |-> path, ret |-> r.ret,
                       flush |-> r.ret]
           /\ wallet' = r.wallet
           /\ disk' = r.disk
           /\ pc' = Resulted(r.ret)
    /\ UNCHANGED <<kvars, tvars>>

\* wallet.set_encryption(encrypted)
CallSetEncryption ==
    /\ pc = "idle"
    /\ \E encrypted \in BOOLEAN :
        /\ call' = [op |-> "set_encryption", encrypted |-> encrypted]
        /\ wallet' = set_encryption(wallet, encrypted)
    /\ pc' = "returned"
    /\ UNCHANGED <<kvars, tvars, disk>>

\* wallet.addresses()
CallAddresses ==
    /\ pc = "idle"
    /\ call' = [op |-> "addresses", ret |-> addresses(wallet)]
    /\ pc' = "returned"
    /\ UNCHANGED <<kvars, wvars, tvars>>

\* The addresses a caller asks for: the labels of the first and of the last
\* node, and one that no key has
NoAddress == <<>>

\* wallet.get_address(address)
CallGetAddress ==
    /\ pc = "idle"
    /\ \E addr \in {wallet.arena.nodes[i].label :
                        i \in {1, Len(wallet.arena.nodes)} \cap DOMAIN wallet.arena.nodes}
                      \cup {NoAddress} :
        \E r \in {get_address(wallet, addr)} :
           /\ call' = [op |-> "get_address", address |-> addr, ret |-> r]
           /\ pc' = IF r = Loops THEN "get_address" ELSE "returned"
    /\ UNCHANGED <<kvars, wvars, tvars>>

\* loop {}
GetAddressLoop ==
    /\ pc = "get_address"
    /\ UNCHANGED vars

\* let wallet = Wallet::from_wallet_file(path). The call keeps the wallet
\* the caller held when the file at the path is a flush of that wallet: a
\* flush of it succeeds and leaves the file as it is.
CallFromWalletFile ==
    /\ pc = "idle"
    /\ \E path \in Files :
        LET r == from_wallet_file(path, disk)
            again == flush(wallet, disk)
            flushed == /\ wallet.path = path
                       /\ IsOk(again.ret)
                       /\ again.disk = disk
        IN /\ call' = [op |-> "from_wallet_file", path |-> path, ret |-> r,
                       flushed |-> IF flushed THEN Some(wallet) ELSE None]
           /\ wallet' = IF IsOk(r) THEN r.val ELSE wallet
    /\ pc' = "returned"
    /\ UNCHANGED <<kvars, tvars, disk>>

\* The caller is done with the result of a call and goes on to the next.
NextCall ==
    /\ pc = "returned"
    /\ pc' = "idle"
    /\ call' = NoCall
    /\ UNCHANGED <<kvars, wvars, tvars>>

WalletNext ==
    \/ CallInit
    \/ CallGenerateMasterKey
    \/ CallRestore
    \/ CallSetPath
    \/ CallSetEncryption
    \/ CallAddresses
    \/ CallGetAddress
    \/ GetAddressLoop
    \/ CallFromWalletFile
    \/ NextCall

WalletSpec == WalletInit /\ [][WalletNext]_vars

\* wallet.init(), on a wallet that may hold key chains already
CallInitAgain ==
    /\ pc = "idle"
    /\ Len(wallet.arena.nodes) + 3 <= MaxChainNodes
    /\ \E mnemonic \in GeneratedPhrases :
        \E r \in {init(wallet, mnemonic, disk)} :
           /\ call' = [op |-> "init", new |-> wallet.arena.nodes = <<>>,
                       ret |-> r.ret, flush |-> r.flush]
           /\ wallet' = r.wallet
           /\ disk' = r.disk
           /\ pc' = Resulted(r.ret)
    /\ UNCHANGED <<kvars, tvars>>

\* A caller that creates key chains, by restore, by init and by init again,
\* on the wallet it made or on one it loaded, and changes where and how the
\* wallet is stored.
ChainNext ==
    \/ CallInitAgain
    \/ CallRestore
    \/ CallSetPath
    \/ CallSetEncryption
    \/ CallFromWalletFile
    \/ NextCall

ChainSpec == WalletInit /\ [][ChainNext]_vars

\* The calls run one after another in one thread: a caller that has the
\* result of a call goes on.
FairWalletSpec == WalletSpec /\ WF_vars(NextCall)

\* ------------------------------------------------------------------ claims on Key

\* The value of a usize against the two powers of two of the claims, read
\* off its limbs: 2^31 - 1 is <<0, 0, 32767, 65535>>, 2^32 - 1 is
\* <<0, 0, 65535, 65535>>.
AtMost2Pow31Minus1(w) == w[1] = 0 /\ w[2] = 0 /\ w[3] <= 32767
AtLeast2Pow31Minus1(w) ==
    w[1] > 0 \/ w[2] > 0 \/ w[3] > 32767 \/ (w[3] = 32767 /\ w[4] = 65535)
AtMost2Pow32Minus1(w) == w[1] = 0 /\ w[2] = 0

InWindow(index, key_type) ==
    IF key_type = "Normal" THEN AtMost2Pow31Minus1(index)
    ELSE AtLeast2Pow31Minus1(index) /\ AtMost2Pow32Minus1(index)

\* C7: derive_child_private_key rejects an index with IndexOutOfRange
\* exactly when it lies outside the window of the key type (Normal: index <=
\* 2^31 - 1; Hardened: 2^31 - 1 <= index <= 2^32 - 1), and an index inside
\* the window gives a child Key (of a parent Key that holds a valid scalar).
C7_IndexWindow ==
    call.op = "derive_child_private_key" =>
        /\ ~InWindow(call.index, call.key_type)
            => call.ret = Err("IndexOutOfRange")
        /\ InWindow(call.index, call.key_type)
            => /\ call.ret # Err("IndexOutOfRange")
               /\ (call.key_type = "Hardened" \/ ValidScalar(call.self.bytes))
                    => IsOk(call.ret)

C7_Witness ==
    /\ call.op = "derive_child_private_key"
    /\ call.key_type = "Hardened"
    /\ call.index = Usize(0, 0, 32767, 65535)
    /\ IsOk(call.ret)

\* C8: every Key that Key::new, Key::from_wif or derive_child_private_key
\* returns holds a valid secp256k1 scalar, 0 < bytes < curve order.
C8_ReturnedKeysAreScalars ==
    (call.op \in {"new", "from_wif", "derive_child_private_key"} /\ IsOk(call.ret))
        => ValidScalar(call.ret.val.bytes)

\* C9: from_wif(to_wif(key)) succeeds for every Key that holds a valid
\* scalar and gives back the bytes, the network and the compression flag.
C9_WifRoundTrip ==
    (/\ call.op = "from_wif"
     /\ call.change = "none"
     /\ ValidScalar(call.of.val.bytes))
        => /\ IsOk(call.ret)
           /\ call.ret.val.bytes = call.of.val.bytes
           /\ call.ret.val.network = call.of.val.network
           /\ call.ret.val.compress_public_keys = call.of.val.compress_public_keys

C9_Witness ==
    /\ call.op = "from_wif"
    /\ call.change = "none"
    /\ ValidScalar(call.of.val.bytes)
    /\ ~call.of.val.compress_public_keys
    /\ Last(call.of.val.bytes) = 1
    /\ IsOk(call.ret)

\* C10 as stated: on a string made by to_wif, a changed checksum byte gives
\* ChecksumMismatch and a version byte changed to a value outside
\* {0x80, 0xef} gives InvalidNetworkByte.
C10_AsStated ==
    call.op = "from_wif" =>
        /\ call.change = "checksum" => call.ret = Err("ChecksumMismatch")
        /\ call.change \in {"version", "version and checksum"}
            => call.ret = Err("InvalidNetworkByte")

\* C10 amended: a changed checksum byte gives ChecksumMismatch; a version
\* byte changed to a value outside {0x80, 0xef} gives ChecksumMismatch as
\* long as the string's checksum does not match the changed payload, and
\* InvalidNetworkByte once it does (the checksum is verified first).
C10_ChecksumBeforeVersion ==
    (call.op = "from_wif" /\ wif # None /\ call.input = wif.val) =>
        LET n == Len(wif.bytes)
            payload == SubSeq(wif.bytes, 1, n - 4)
            matches == SubSeq(sha256_hash_twice(payload), 1, 4)
                           = SubSeq(wif.bytes, n - 3, n)
        IN /\ call.change = "checksum" => call.ret = Err("ChecksumMismatch")
           /\ call.change \in {"version", "version and checksum"}
                => call.ret = IF matches THEN Err("InvalidNetworkByte")
                              ELSE Err("ChecksumMismatch")
           /\ call.change = "version" => ~matches

C10_Witness ==
    /\ call.op = "from_wif"
    /\ call.change = "version and checksum"
    /\ call.ret = Err("InvalidNetworkByte")

\* ------------------------------------------------------------------ claims on Wallet

\* C1: after any sequence of generate_master_key, init and restore, at most
\* one node of the arena has no parent.
C1_AtMostOneParentless == Cardinality(Masters(wallet)) <= 1

\* C2: after init() or restore() has returned successfully on a new wallet,
\* the arena holds three nodes inserted in this order: the root, a Master
\* key with no parent; the Hardened node, whose parent is the root; the
\* Normal node, whose parent is the Hardened node.
C2_Genealogy ==
    (/\ pc = "returned"
     /\ call.op \in {"init", "restore"}
     /\ call.new
     /\ IsOk(call.ret))
        => /\ Len(wallet.arena.nodes) = 3
           /\ wallet.arena.root = Some(0)
           /\ wallet.arena.nodes[1].data.key_type = "Master"
           /\ wallet.arena.nodes[1].parent = None
           /\ wallet.arena.nodes[2].data.key_type = "Hardened"
           /\ wallet.arena.nodes[2].parent = Some(0)
           /\ wallet.arena.nodes[3].data.key_type = "Normal"
           /\ wallet.arena.nodes[3].parent = Some(1)

\* C3: whenever the flush made during init() or restore() fails, the call
\* returns an error.
C3_FailedFlushSurfaced ==
    (/\ pc = "returned"
     /\ call.op \in {"init", "restore"}
     /\ IsErr(call.flush))
        => IsErr(call.ret)

\* C4: from_wallet_file() on the path of a wallet whose flush has succeeded
\* returns a wallet equal to the flushed one.
C4_PersistenceRoundTrip ==
    (/\ call.op = "from_wallet_file"
     /\ call.flushed # None)
        => /\ IsOk(call.ret)
           /\ call.ret.val = call.flushed.val

\* C5: addresses() returns an error when the address of some node's private
\* key fails; otherwise it returns as many addresses as the arena has nodes,
\* the i-th one being the address of the private key of the i-th node
\* inserted.
C5_AddressesInOrder ==
    call.op = "addresses"
        => IF \E i \in DOMAIN wallet.arena.nodes :
                  ~IsOk(address(wallet.arena.nodes[i].data.private_key))
           THEN IsErr(call.ret)
           ELSE /\ IsOk(call.ret)
                /\ Len(call.ret.val) = Len(wallet.arena.nodes)
                /\ \A i \in DOMAIN wallet.arena.nodes :
                      call.ret.val[i]
                          = address(wallet.arena.nodes[i].data.private_key).val

C5_Witness ==
    /\ call.op = "addresses"
    /\ IsOk(call.ret)
    /\ Len(call.ret.val) = 3
    /\ wallet.arena.nodes[2].data.key_type = "Hardened"
    /\ call.ret.val[1] # call.ret.val[2]
    /\ call.ret.val[2] # call.ret.val[3]

\* C6: a call of get_address terminates: once inside get_address, the caller
\* gets a result.
C6_GetAddressTerminates == (pc = "get_address") ~> (pc = "returned")

\* ------------------------------------------------------------------ more claims on Key

\* C11: no key operation aborts the process: each call of Key::new, from_wif,
\* to_wif and of the derivations returns a value or a KeyError.
C11_NoKeyOperationAborts == pc # "aborted"

\* The hardened indices of IndexSamples that derive_child_private_key accepts
HardenedSamples == {i \in IndexSamples : ~IndexOutOfRange(i, "Hardened")}

\* C14: a hardened derivation hashes private_key_bytes || LE(index), and
\* deriving at another hardened index gives another child.
C14_HardenedHmacCoversIndex ==
    (call.op = "derive_child_private_key" /\ call.key_type = "Hardened"
        /\ IsOk(call.ret))
    => /\ HmacInput(call.self, call.index, "Hardened")
            = call.self.bytes \o to_le_bytes(call.index)
       /\ \A other \in HardenedSamples \ {call.index} :
            derive_child_private_key(call.self, other, "Hardened") # call.ret

\* C15: derive_child_public_key(index) hashes the same bytes as
\* derive_child_private_key(index, Normal) and gives the child the same
\* chain code.
C15_PublicAndPrivateChainCode ==
    (call.op = "derive_child_public_key" /\ IsOk(call.ret))
    => \E private \in {derive_child_private_key(call.self, U32AsUsize(call.index),
                                                "Normal")} :
        /\ PublicHmacInput(call.self, call.index)
             = HmacInput(call.self, U32AsUsize(call.index), "Normal")
        /\ IsOk(private)
        /\ private.val.chain_code = SplitOff(call.ret.val, 33)

\* The 32 big-endian bytes of (a + b) mod CURVE_ORDER, a and b unsigned
\* big-endian
ScalarSum(a, b) ==
    LET sum == MagRem(MagAdd(MagNorm(Reverse(a)), MagNorm(Reverse(b))),
                      MagNorm(Reverse(CURVE_ORDER)))
    IN Rep(0, 32 - Len(sum)) \o Reverse(sum)

\* C16: a derived child private key is 32 bytes long and is
\* (IL + parent) mod CURVE_ORDER, all three taken as unsigned big-endian
\* numbers, IL being the left half of the HMAC.
C16_ChildIsScalarSum ==
    (call.op = "derive_child_private_key" /\ IsOk(call.ret))
    => /\ Len(call.ret.val.bytes) = 32
       /\ call.ret.val.bytes =
            ScalarSum(SplitKeep(hmac_sha512_hash(
                          HmacInput(call.self, call.index, call.key_type),
                          call.self.chain_code), 32),
                      call.self.bytes)

\* ------------------------------------------------------------------ more claims on Wallet

\* The nodes of a wallet that carry a key of one type
NodesOfType(w, key_type) ==
    {i \in DOMAIN w.arena.nodes : w.arena.nodes[i].data.key_type = key_type}

\* start + n
RECURSIVE UsizeAdd(_, _)
UsizeAdd(start, n) == IF n = 0 THEN start ELSE UsizeInc(UsizeAdd(start, n - 1))

\* The nodes a step adds to the arena
NewNodes == (Len(wallet.arena.nodes) + 1)..Len(wallet'.arena.nodes)

\* A step that leaves the caller with the wallet it held or with that wallet
\* grown; from_wallet_file gives the caller another wallet, read from a file.
SameWallet == call'.op # "from_wallet_file"

\* C17 as stated: a creation of a key chain, which adds a hardened node,
\* increments both counters by one.
C17_AsStated ==
    [][(SameWallet /\ \E i \in NewNodes :
                        wallet'.arena.nodes[i].data.key_type = "Hardened")
        => /\ wallet'.next_hardened_index = UsizeInc(wallet.next_hardened_index)
           /\ wallet'.next_normal_index = UsizeInc(wallet.next_normal_index)]_vars

\* A node added with a key of the type carries the value the counter had,
\* and the counter is one more after the step exactly when such a node was
\* added, else what it was.
CounterStep(key_type, before, after) ==
    /\ \A i \in NewNodes :
        wallet'.arena.nodes[i].data.key_type = key_type
        => wallet'.arena.nodes[i].data.index = Some(before)
    /\ after = IF \E i \in NewNodes :
                    wallet'.arena.nodes[i].data.key_type = key_type
               THEN UsizeInc(before) ELSE before
    /\ ~UsizeLt(after, before)

\* The counter of a type is its first value plus the number of nodes of the
\* type, and no two nodes of the type carry the same index.
CounterOf(key_type, first, counter) ==
    /\ counter = UsizeAdd(first, Cardinality(NodesOfType(wallet, key_type)))
    /\ \A i, j \in NodesOfType(wallet, key_type) :
        i # j => wallet.arena.nodes[i].data.index
                    # wallet.arena.nodes[j].data.index

\* C17: next_hardened_index starts at 2^31 - 1 and next_normal_index at 1;
\* a counter is incremented by one exactly when a node carrying its value is
\* added and is never decremented; no two nodes of one key type carry the
\* same index.
C17_CountersFollowNodes ==
    /\ [](/\ CounterOf("Hardened", MaxNormalIndex, wallet.next_hardened_index)
          /\ CounterOf("Normal", Usize(0, 0, 0, 1), wallet.next_normal_index))
    /\ [][SameWallet
          => /\ CounterStep("Hardened", wallet.next_hardened_index,
                            wallet'.next_hardened_index)
             /\ CounterStep("Normal", wallet.next_normal_index,
                            wallet'.next_normal_index)]_vars

\* a second key chain was created in a wallet that held one: two hardened and
\* two normal nodes
C17_Witness ==
    /\ call.op = "init"
    /\ IsOk(call.ret)
    /\ Cardinality(NodesOfType(wallet, "Hardened")) = 2
    /\ Cardinality(NodesOfType(wallet, "Normal")) = 2

\* The flushes a call made: create_key_chain, which init and restore call, makes
\* one unless a `?` leaves it before; generate_master_key makes none.
Flushes(c) ==
    IF c.op \in {"init", "restore"} /\ c.flush # NoFlush THEN 1 ELSE 0

\* C18: every insertion of a node is followed by a flush before the next
\* insertion and before the inserting call returns: a call makes as many
\* flushes as it adds nodes.
C18_FlushAfterEachInsertion ==
    [][SameWallet => Cardinality(NewNodes) <= Flushes(call')]_vars

\* ------------------------------------------------------------------ claims on Transaction

\* The number a string of hexadecimal digits writes
RECURSIVE HexValue(_)
HexValue(digits) ==
    IF digits = <<>> THEN 0 ELSE 16 * HexValue(Front(digits)) + Last(digits)

\* C12: in the output of sign(key), the signature script of every input is
\* preceded by one length byte, two hexadecimal digits, whose value is the
\* number of bytes of the script that follows.
C12_ScriptLengthByte ==
    (call.op = "sign" /\ IsOk(call.ret))
    => \A i \in 1..Len(call.ret.val) :
        call.ret.val[i].field = "script"
        => /\ call.ret.val[i - 1].field = "script_bytes"
           /\ Len(call.ret.val[i - 1].text) = 2
           /\ 2 * HexValue(call.ret.val[i - 1].text) = Len(call.ret.val[i].text)

\* C13: the lock time that ends the output of pre_sign() and of sign(key) is
\* 4 bytes, 8 hexadecimal digits, also for a transaction made with no lock
\* time.
C13_LockTimeFourBytes ==
    (call.op \in {"pre_sign", "sign"} /\ IsOk(call.ret))
    => /\ Last(call.ret.val).field = "lock_time"
       /\ Len(Last(call.ret.val).text) = 8

\* C19: the output of sign(key) has the fields of the output of pre_sign() in
\* the same order, with the same text but for the script length and the
\* script of the inputs, which are the same for every input.
C19_SignKeepsPreSign ==
    (call.op = "sign" /\ IsOk(call.ret))
    => \E signed \in {call.ret.val}, pre \in {pre_sign(call.self)} :
        /\ IsOk(pre)
        /\ Len(signed) = Len(pre.val)
        /\ \A i \in 1..Len(signed) :
            /\ signed[i].field = pre.val[i].field
            /\ signed[i].field \notin {"script_bytes", "script"}
                => signed[i].text = pre.val[i].text
        /\ \A i, j \in 1..Len(signed) :
            (signed[i].field = signed[j].field
                /\ signed[i].field \in {"script_bytes", "script"})
            => signed[i].text = signed[j].text

\* a transaction of two inputs and two outputs was signed
C19_Witness ==
    /\ call.op = "sign"
    /\ IsOk(call.ret)
    /\ Len(call.self.tx_in) = 2
    /\ Len(call.self.tx_out) = 2

====
